---- MODULE Spec2Model ----
(***************************************************************************)
(* The acceleration-detection service of ml-service/app:                   *)
(*   detector.py  AccelerationDetector (the engine)                        *)
(*   main.py      the FastAPI handler of POST /calculate-acceleration      *)
(*   models.py    AccelerationRequest / AccelerationResponse               *)
(*                                                                         *)
(* Numbers.  A Python float is modelled as a record: a finite value is     *)
(* an integer count of a fixed unit, and NaN, +inf and -inf are kept as    *)
(* such, with IEEE-754 arithmetic on them.  Throughput and velocity are    *)
(* counted in units of 1/VScale, a first derivative in units of            *)
(* 1/(2*VScale), an acceleration in units of 1/AccScale = 1/(4*VScale),    *)
(* so that both np.gradient passes are exact.  The smoothing recurrence    *)
(* rounds to the velocity unit and the square root of np.std rounds to     *)
(* the acceleration unit, as the float operations round to their own       *)
(* precision.  A confidence is a fraction until round(confidence, 3)       *)
(* makes it a count of thousandths.  smoothing_alpha is a count of tenths. *)
(***************************************************************************)
EXTENDS Integers, Sequences, FiniteSets, TLC

VARIABLES detector, served, pc, request, frame, response, acc_in, cls_out

vars == <<detector, served, pc, request, frame, response, acc_in, cls_out>>

-----------------------------------------------------------------------------
(* Bounds of the model *)

\* longest timestamps / metrics sequence of a request
MaxLen == 8
\* number of leading metrics of a request that vary freely
VarLen == 4
\* number of calls the service takes
MaxCalls == 2
\* longest freely enumerated acceleration sequence given to the classifier
MaxAccLen == 4

(* Resolution of the number model *)
VScale == 10^3
AccScale == 4 * VScale
AlphaDen == 10^1

(* Program constants *)
DefaultMinDataPoints == 7
DefaultConfidenceThresholdTenths == 7
DefaultAlphaTenths == 3
MinDerivativePoints == 3
MinClassifyPoints == 3
MaxWindow == 7
ThresholdTenths == 1
BoostTenths == 12
EpsilonDen == 10^6
StatusOK == 200
StatusError == 500

-----------------------------------------------------------------------------
(* Floats *)

Fin(n) == [k |-> "fin", v |-> n]
NaN == [k |-> "nan", v |-> 0]
PosInf == [k |-> "inf", v |-> 1]
NegInf == [k |-> "inf", v |-> -1]

IsFin(x) == x.k = "fin"
IsNaN(x) == x.k = "nan"
IsInf(x) == x.k = "inf"

Abs(n) == IF n < 0 THEN -n ELSE n
Sign(n) == IF n < 0 THEN -1 ELSE IF n > 0 THEN 1 ELSE 0

FNeg(x) == IF IsNaN(x) THEN NaN ELSE [k |-> x.k, v |-> -x.v]

FAdd(x, y) ==
    IF IsNaN(x) \/ IsNaN(y) THEN NaN
    ELSE IF IsInf(x) /\ IsInf(y) THEN (IF x.v = y.v THEN x ELSE NaN)
    ELSE IF IsInf(x) THEN x
    ELSE IF IsInf(y) THEN y
    ELSE Fin(x.v + y.v)

FSub(x, y) == FAdd(x, FNeg(y))

\* c * x for an integer factor c (0 * inf is NaN)
FMulInt(c, x) ==
    IF IsNaN(x) THEN NaN
    ELSE IF IsInf(x) THEN (IF c = 0 THEN NaN ELSE [k |-> "inf", v |-> Sign(c) * x.v])
    ELSE Fin(c * x.v)

\* x / d for an integer d > 0, rounded to the nearest unit
FDivInt(x, d) == IF IsFin(x) THEN Fin((2 * x.v + d) \div (2 * d)) ELSE x

RECURSIVE FSum(_)
FSum(xs) == IF xs = <<>> THEN Fin(0) ELSE FAdd(FSum(Tail(xs)), Head(xs))

AllFinite(xs) == \A i \in 1..Len(xs) : IsFin(xs[i])

RECURSIVE SqrtSearch(_, _, _)
SqrtSearch(n, lo, hi) ==
    IF lo = hi THEN lo
    ELSE LET mid == (lo + hi + 1) \div 2
         IN  IF mid * mid <= n THEN SqrtSearch(n, mid, hi) ELSE SqrtSearch(n, lo, mid - 1)

\* floor of the square root of n >= 0
ISqrt(n) == SqrtSearch(n, 0, 46340)

Min(a, b) == IF a < b THEN a ELSE b

\* F applied to the value of x, x being evaluated once (a local variable assigned once)
Let(x, F(_)) == CHOOSE r \in {F(y) : y \in {x}} : TRUE

-----------------------------------------------------------------------------
(* detector.py: the engine *)

\* AccelerationDetector.__init__
AccelerationDetector(min_data_points, confidence_threshold) ==
    [min_data_points |-> min_data_points, confidence_threshold |-> confidence_threshold]

\* variant: the call keeps the number of points it processed as the new minimum
SelfAfterCall_Remembering(self, n) == [self EXCEPT !.min_data_points = n]

\* the attributes of self after a call of calculate_acceleration on n points:
\* no method of the class assigns to self outside __init__
SelfAfterCall(self, n) == self

\* a row of the DataFrame
Row(t, x) == [timestamp |-> t, throughput |-> x]

\* pd.DataFrame({'timestamp': timestamps, 'throughput': throughput_values})
DataFrame(timestamps, throughput_values) ==
    [i \in 1..Len(timestamps) |-> Row(timestamps[i], throughput_values[i])]

\* timestamps can be ordered unless offset-naive and offset-aware datetimes are mixed
Comparable(timestamps) ==
    \A i, j \in 1..Len(timestamps) : timestamps[i].aware = timestamps[j].aware

\* df['throughput'].values
ThroughputColumn(df) == [i \in 1..Len(df) |-> df[i].throughput]

RECURSIVE InsertRow(_, _)
InsertRow(sorted, r) ==
    IF sorted = <<>> THEN <<r>>
    ELSE IF r.timestamp.day < Head(sorted).timestamp.day THEN <<r>> \o sorted
    ELSE <<Head(sorted)>> \o InsertRow(Tail(sorted), r)

RECURSIVE SortRows(_, _)
SortRows(done, rest) ==
    IF rest = <<>> THEN done ELSE SortRows(InsertRow(done, Head(rest)), Tail(rest))

\* df.sort_values('timestamp'): ascending, rows with equal timestamps keep their order
sort_values(df) == SortRows(<<>>, df)

\* variant: the missing values are removed from the throughput column alone, and the
\* values left are paired with the first timestamps
dropna_ColumnOnly(df) ==
    LET values == SelectSeq(ThroughputColumn(df), LAMBDA x : ~IsNaN(x))
    IN  [i \in 1..Len(values) |-> Row(df[i].timestamp, values[i])]

\* df.dropna(): rows holding NaN (a missing value) are removed, whole row at a time
dropna(df) == SelectSeq(df, LAMBDA r : ~IsNaN(r.throughput))

RECURSIVE SmoothFrom(_, _, _)
SmoothFrom(smoothed, values, alpha) ==
    IF Len(smoothed) = Len(values) THEN smoothed
    ELSE LET i == Len(smoothed) + 1
             s == FDivInt(FAdd(FMulInt(alpha, values[i]),
                                FMulInt(AlphaDen - alpha, smoothed[i - 1])), AlphaDen)
         IN  SmoothFrom(Append(smoothed, s), values, alpha)

_apply_exponential_smoothing(values, alpha) ==
    IF Len(values) = 0 THEN <<>> ELSE SmoothFrom(<<values[1]>>, values, alpha)

\* variant: np.diff, one element shorter than f
gradient_Diff(f) == [i \in 1..(Len(f) - 1) |-> FMulInt(2, FSub(f[i + 1], f[i]))]

\* np.gradient(f) for Len(f) >= 2 and unit spacing, the result counted in half units of f
gradient(f) ==
    LET n == Len(f)
    IN  [i \in 1..n |->
            IF i = 1 THEN FMulInt(2, FSub(f[2], f[1]))
            ELSE IF i = n THEN FMulInt(2, FSub(f[n], f[n - 1]))
            ELSE FSub(f[i + 1], f[i - 1])]

\* variant: the guard for short series is off by one
_calculate_acceleration_ShortByOne(velocity) ==
    IF Len(velocity) < MinDerivativePoints - 1 THEN [i \in 1..Len(velocity) |-> Fin(0)]
    ELSE Let(gradient(velocity), LAMBDA first_derivative : gradient(first_derivative))

_calculate_acceleration(velocity) ==
    IF Len(velocity) < MinDerivativePoints THEN [i \in 1..Len(velocity) |-> Fin(0)]
    ELSE Let(gradient(velocity), LAMBDA first_derivative : gradient(first_derivative))

\* variant: half the data, without the cap of 7
recent_window_Uncapped(acceleration_history) == Len(acceleration_history) \div 2

\* recent_window = min(7, len(acceleration_history) // 2)
recent_window(acceleration_history) == Min(MaxWindow, Len(acceleration_history) \div 2)

\* seq[-w:] of Python for w >= 0: the last w elements, and all of seq when w = 0
LastSlice(seq, w) ==
    IF w = 0 \/ w >= Len(seq) THEN seq ELSE SubSeq(seq, Len(seq) - w + 1, Len(seq))

recent_accel(acceleration_history) ==
    LastSlice(acceleration_history, recent_window(acceleration_history))

\* np.mean(recent) is MeanSum(recent) / Len(recent); NaN for an empty array
MeanSum(recent) == IF recent = <<>> THEN NaN ELSE FSum(recent)

RECURSIVE SumSquares(_)
SumSquares(xs) ==
    IF xs = <<>> THEN 0 ELSE Head(xs).v * Head(xs).v + SumSquares(Tail(xs))

\* for finite elements np.std(recent) is sqrt(VarNum(recent)) / Len(recent)
VarNum(recent) == Len(recent) * SumSquares(recent) - FSum(recent).v * FSum(recent).v

\* std_accel == 0; a non-finite element makes np.std NaN, which equals nothing
StdIsZero(recent) == recent # <<>> /\ AllFinite(recent) /\ VarNum(recent) = 0

\* a confidence as a fraction n/d (d > 0), or NaN
Frac(n, d) == [k |-> "fin", n |-> n, d |-> d]
FracNaN == [k |-> "nan", n |-> 0, d |-> 1]
One == Frac(1, 1)

\* units of 1e-6 in one acceleration unit
EpsUnits == EpsilonDen \div AccScale

\* (abs(mean_accel) / (std_accel + 1e-6)) / 2.0; with S the sum, w the length and
\* R = sqrt(VarNum) this is |S| / (2 * (R + w * AccScale / EpsilonDen))
HalfSignalToNoise(recent) ==
    IF recent = <<>> \/ ~AllFinite(recent) THEN FracNaN
    ELSE Frac(EpsUnits * Abs(FSum(recent).v),
              2 * (EpsUnits * ISqrt(VarNum(recent)) + Len(recent)))

\* min(1.0, c) of Python: c only when c < 1.0, so 1.0 for NaN
MinOne(c) == IF c.k = "fin" /\ c.n < c.d THEN c ELSE One

\* mean_accel > tenths/10
MeanAbove(recent, tenths) ==
    LET s == MeanSum(recent)
    IN  IF IsFin(s) THEN 10 * s.v > tenths * Len(recent) * AccScale
        ELSE IsInf(s) /\ s.v = 1

\* mean_accel < -tenths/10
MeanBelow(recent, tenths) ==
    LET s == MeanSum(recent)
    IN  IF IsFin(s) THEN 10 * s.v < -(tenths * Len(recent) * AccScale)
        ELSE IsInf(s) /\ s.v = -1

\* abs(mean_accel) > tenths/10
AbsMeanAbove(recent, tenths) == MeanAbove(recent, tenths) \/ MeanBelow(recent, tenths)

\* the confidence before the boost (lines 152-157)
BaseConfidence(recent) ==
    IF StdIsZero(recent) THEN One ELSE MinOne(HalfSignalToNoise(recent))

\* variant: the boosted confidence is not clamped
Boost_Unclamped(confidence, recent) ==
    IF AbsMeanAbove(recent, 2 * ThresholdTenths)
    THEN Frac(BoostTenths * confidence.n, 10 * confidence.d)
    ELSE confidence

\* if abs(mean_accel) > threshold * 2: confidence = min(1.0, confidence * 1.2)
Boost(confidence, recent) ==
    IF AbsMeanAbove(recent, 2 * ThresholdTenths)
    THEN MinOne(Frac(BoostTenths * confidence.n, 10 * confidence.d))
    ELSE confidence

\* the trend label (lines 160-167)
TrendLabel(recent) ==
    IF MeanAbove(recent, ThresholdTenths) THEN "improving"
    ELSE IF MeanBelow(recent, ThresholdTenths) THEN "declining"
    ELSE "stable"

\* floor(10 * r / d) and the remainder, one step of the long division
Digit(r, d) == (10 * r) \div d
Rest(r, d) == (10 * r) % d

\* round(confidence, 3) in thousandths, ties to even
round3(c) ==
    LET r0 == c.n % c.d
        r1 == Rest(r0, c.d)
        r2 == Rest(r1, c.d)
        r3 == Rest(r2, c.d)
        q  == 1000 * (c.n \div c.d) + 100 * Digit(r0, c.d) + 10 * Digit(r1, c.d)
              + Digit(r2, c.d)
    IN  IF 2 * r3 > c.d \/ (2 * r3 = c.d /\ q % 2 = 1) THEN q + 1 ELSE q

\* returns (trend, confidence), the confidence in thousandths
_classify_trend(acceleration_history) ==
    IF Len(acceleration_history) < MinClassifyPoints
    THEN [trend |-> "stable", confidence |-> 500]
    ELSE Let(recent_accel(acceleration_history), LAMBDA recent :
             [trend |-> TrendLabel(recent),
              confidence |-> round3(Boost(BaseConfidence(recent), recent))])

\* the message of a raised exception
Message(text, required, got) == [text |-> text, required |-> required, got |-> got]

\* what a call of calculate_acceleration leaves: the exception raised ("" for none), the
\* argument it was given, its local variables, and the value returned (<<>> for none)
Raised(type, message, smoothing_alpha) ==
    [raised |-> type, message |-> message, smoothing_alpha |-> smoothing_alpha,
     df |-> <<>>, velocity_history |-> <<>>, acceleration_history |-> <<>>,
     result |-> <<>>]

\* variant: the minimum itself is rejected
LengthCheck_Exclusive(self, timestamps, throughput_values) ==
    IF Len(timestamps) <= self.min_data_points
    THEN <<Message("Need at least {min_data_points} data points, got {len(timestamps)}",
                   self.min_data_points, Len(timestamps))>>
    ELSE IF Len(timestamps) # Len(throughput_values)
    THEN <<Message("Timestamps and throughput values must have same length", 0, 0)>>
    ELSE <<>>

\* variant: the two checks in the other order
LengthCheck_MismatchFirst(self, timestamps, throughput_values) ==
    IF Len(timestamps) # Len(throughput_values)
    THEN <<Message("Timestamps and throughput values must have same length", 0, 0)>>
    ELSE IF Len(timestamps) < self.min_data_points
    THEN <<Message("Need at least {min_data_points} data points, got {len(timestamps)}",
                   self.min_data_points, Len(timestamps))>>
    ELSE <<>>

\* the two length checks (lines 47-51): the message of the ValueError raised, <<>> for none
LengthCheck(self, timestamps, throughput_values) ==
    IF Len(timestamps) < self.min_data_points
    THEN <<Message("Need at least {min_data_points} data points, got {len(timestamps)}",
                   self.min_data_points, Len(timestamps))>>
    ELSE IF Len(timestamps) # Len(throughput_values)
    THEN <<Message("Timestamps and throughput values must have same length", 0, 0)>>
    ELSE <<>>

\* velocity_history[-1] if len(velocity_history) > 0 else 0.0
LastOrZero(history) == IF Len(history) > 0 THEN history[Len(history)] ELSE Fin(0)

AccelerationResponse(current_velocity, current_acceleration, trend, confidence, velocity_history, acceleration_history) ==
    [current_velocity |-> current_velocity, current_acceleration |-> current_acceleration,
     trend |-> trend, confidence |-> confidence,
     velocity_history |-> velocity_history, acceleration_history |-> acceleration_history]

calculate_acceleration(self, timestamps, throughput_values, smoothing_alpha) ==
    LET check == LengthCheck(self, timestamps, throughput_values)
    IN  IF check # <<>> THEN Raised("ValueError", check[1], smoothing_alpha)
        ELSE IF ~Comparable(timestamps)
        THEN Raised("TypeError",
                    Message("can't compare offset-naive and offset-aware datetimes", 0, 0),
                    smoothing_alpha)
        ELSE
        Let(dropna(sort_values(DataFrame(timestamps, throughput_values))), LAMBDA df :
        Let(_apply_exponential_smoothing(ThroughputColumn(df), smoothing_alpha),
            LAMBDA velocity_history :
        Let(_calculate_acceleration(velocity_history), LAMBDA acceleration_history :
        Let(_classify_trend(acceleration_history), LAMBDA classified :
            [raised |-> "", message |-> Message("", 0, 0),
             smoothing_alpha |-> smoothing_alpha,
             df |-> df, velocity_history |-> velocity_history,
             acceleration_history |-> acceleration_history,
             result |-> <<AccelerationResponse(
                            LastOrZero(velocity_history),
                            LastOrZero(acceleration_history),
                            classified.trend, classified.confidence,
                            velocity_history, acceleration_history)>>]))))

-----------------------------------------------------------------------------
(* models.py and main.py: the transport *)

\* AccelerationRequest; smoothing_alpha is <<>> for None and <<a>> for a tenths
AccelerationRequest(timestamps, metrics, smoothing_alpha) ==
    [timestamps |-> timestamps, metrics |-> metrics, smoothing_alpha |-> smoothing_alpha]

\* request.smoothing_alpha or 0.3: Python's or takes the right side for None and for 0.0
SmoothingAlphaArgument(req) ==
    IF req.smoothing_alpha = <<>> \/ req.smoothing_alpha[1] = 0
    THEN DefaultAlphaTenths
    ELSE req.smoothing_alpha[1]

\* the status code of the HTTPException raised for an exception of the engine
ExceptionStatus(raised) == StatusError

\* what the handler answers, given what the engine call left
HandlerResponse(out) ==
    IF out.raised = ""
    THEN [status_code |-> StatusOK, detail |-> <<>>, body |-> out.result]
    ELSE [status_code |-> ExceptionStatus(out.raised),
          detail |-> <<[prefix |-> "Calculation error: ", message |-> out.message]>>,
          body |-> <<>>]

\* the engine call of the handler (lines 44-48)
EngineCall(self, req) ==
    calculate_acceleration(self, req.timestamps, req.metrics, SmoothingAlphaArgument(req))

-----------------------------------------------------------------------------
(* The requests and acceleration sequences of the model *)

Values == {Fin(VScale), Fin(2 * VScale), NaN, PosInf}

Alphas == {<<>>, <<0>>, <<5>>, <<10>>}

Orders == {"ascending", "descending", "shuffled"}

Naive(day) == [day |-> day, aware |-> FALSE]
Aware(day) == [day |-> day, aware |-> TRUE]

\* n distinct days: 1..n in order, in reverse order, or in steps of 5 modulo n
\* (a permutation for the n used, none a multiple of 5)
Timestamps(n, order) ==
    [i \in 1..n |-> Naive(IF order = "ascending" THEN i
                          ELSE IF order = "descending" THEN n + 1 - i
                          ELSE ((5 * i) % n) + 1)]

\* the first VarLen metrics are f[1..VarLen], the others repeat f[VarLen]
Metrics(n, f) == [i \in 1..n |-> f[Min(i, VarLen)]]

Ones(n) == [i \in 1..n |-> Fin(VScale)]

\* requests that pass the length checks
NumericRequests ==
    {AccelerationRequest(Timestamps(n, o), Metrics(n, f), a) :
        n \in DefaultMinDataPoints..MaxLen, o \in Orders,
        f \in [1..VarLen -> Values], a \in Alphas}

\* every pair of lengths
LengthRequests ==
    {AccelerationRequest(Timestamps(nt, "ascending"), Ones(nv), <<>>) :
        nt \in 0..MaxLen, nv \in 0..MaxLen}

\* requests whose first timestamp carries a UTC offset and whose others carry none
MixedOffsetRequests ==
    {AccelerationRequest([i \in 1..n |-> IF i = 1 THEN Aware(i) ELSE Naive(i)],
                         Ones(n), <<>>) : n \in DefaultMinDataPoints..MaxLen}

Requests == NumericRequests \cup LengthRequests \cup MixedOffsetRequests

-----------------------------------------------------------------------------
(* The service: one process, one detector, the handler run to completion *)

Init ==
    /\ detector = AccelerationDetector(DefaultMinDataPoints, DefaultConfidenceThresholdTenths)
    /\ served = 0
    /\ pc = "idle"
    /\ request = <<>>
    /\ frame = <<>>
    /\ response = <<>>
    /\ acc_in = <<>>
    /\ cls_out = <<>>

\* a validated AccelerationRequest reaches the handler
Receive ==
    /\ pc = "idle"
    /\ served < MaxCalls
    /\ pc' = "received"
    /\ \E req \in Requests : request' = <<req>>
    /\ UNCHANGED <<detector, served, frame, response, acc_in, cls_out>>

\* the handler calculate_acceleration of main.py
Handle ==
    /\ pc = "received"
    /\ \E out \in {EngineCall(detector, request[1])} :
           /\ frame' = <<out>>
           /\ response' = <<HandlerResponse(out)>>
           /\ detector' = SelfAfterCall(detector, Len(out.df))
    /\ served' = served + 1
    /\ pc' = "responded"
    /\ UNCHANGED <<request, acc_in, cls_out>>

\* the response is sent and the call's objects are dropped
Send ==
    /\ pc = "responded"
    /\ pc' = "idle"
    /\ request' = <<>>
    /\ frame' = <<>>
    /\ response' = <<>>
    /\ UNCHANGED <<detector, served, acc_in, cls_out>>

Next ==
    \/ Receive
    \/ Handle
    \/ Send

Spec == Init /\ [][Next]_vars

-----------------------------------------------------------------------------
(* The classifier alone, on acceleration sequences of its own *)

Tenth == AccScale \div 10

AccValues == {Fin(k * Tenth) : k \in {-3, -1, 0, 1, 3}} \cup {NaN, PosInf, NegInf}

\* every sequence of up to MaxAccLen values
ShortAcc == UNION {[1..n -> AccValues] : n \in 0..MaxAccLen}

\* longer sequences: k times a, then b to the end
StepLens == {7, 14, 16}
StepsOfLen(n) ==
    {[i \in 1..n |-> IF i <= k THEN a ELSE b] :
        k \in 0..n, a \in AccValues, b \in AccValues}
StepAcc == UNION {StepsOfLen(n) : n \in StepLens}

AccInputs == ShortAcc \cup StepAcc

InitClassify ==
    /\ detector = AccelerationDetector(DefaultMinDataPoints, DefaultConfidenceThresholdTenths)
    /\ served = 0
    /\ pc = "idle"
    /\ request = <<>>
    /\ frame = <<>>
    /\ response = <<>>
    /\ acc_in \in AccInputs
    /\ cls_out = <<>>

\* one call of _classify_trend
Classify ==
    /\ cls_out = <<>>
    /\ cls_out' = <<_classify_trend(acc_in)>>
    /\ UNCHANGED <<detector, served, pc, request, frame, response, acc_in>>

NextClassify == Classify

ClassifySpec == InitClassify /\ [][NextClassify]_vars

-----------------------------------------------------------------------------
(* Properties *)

Responded == pc = "responded"
Req == request[1]
Out == frame[1]
Resp == response[1]

NeedAtLeastText == "Need at least {min_data_points} data points, got {len(timestamps)}"
MismatchText == "Timestamps and throughput values must have same length"

\* the call raised the ValueError of too few data points, and nothing was returned
RaisedInsufficient ==
    /\ Out.raised = "ValueError"
    /\ Out.message = Message(NeedAtLeastText, detector.min_data_points, Len(Req.timestamps))
    /\ Out.result = <<>>
    /\ Resp.body = <<>>

\* the call raised the ValueError of the length mismatch, and nothing was returned
RaisedMismatch ==
    /\ Out.raised = "ValueError"
    /\ Out.message.text = MismatchText
    /\ Out.result = <<>>
    /\ Resp.body = <<>>

\* C1: a call with fewer timestamps than the detector's min_data_points raises the
\* ValueError that states the required minimum and the actual count and returns nothing;
\* a call with exactly min_data_points timestamps and as many values raises no ValueError.
C1_InsufficientData ==
    Responded =>
        /\ Len(Req.timestamps) < detector.min_data_points => RaisedInsufficient
        /\ (/\ Len(Req.timestamps) = detector.min_data_points
            /\ Len(Req.metrics) = detector.min_data_points) => Out.raised # "ValueError"

C1_Witness ==
    /\ Responded
    /\ Len(Req.timestamps) = detector.min_data_points - 1
    /\ Len(Req.metrics) = Len(Req.timestamps)
    /\ RaisedInsufficient
    /\ Out.message.required = DefaultMinDataPoints

\* C2 as claimed: whenever the two sequences differ in length, whatever the lengths, the
\* call fails with the length-mismatch error and returns nothing.
C2_AlwaysMismatchError ==
    (Responded /\ Len(Req.timestamps) # Len(Req.metrics)) => RaisedMismatch

\* C2 amended: whenever the two sequences differ in length the call raises a ValueError
\* and returns nothing; the error is the length-mismatch one when there are at least
\* min_data_points timestamps, and the too-few-data-points one when there are fewer.
C2_MismatchAfterMinimum ==
    (Responded /\ Len(Req.timestamps) # Len(Req.metrics)) =>
        IF Len(Req.timestamps) >= detector.min_data_points
        THEN RaisedMismatch
        ELSE RaisedInsufficient

C2_Witness ==
    /\ Responded
    /\ Len(Req.timestamps) > Len(Req.metrics)
    /\ Len(Req.metrics) < detector.min_data_points
    /\ Len(Req.timestamps) >= detector.min_data_points
    /\ RaisedMismatch

\* C3: a call that failed input validation (a ValueError of the length checks) is answered
\* in another category (status code) than the one an unexpected failure of the engine
\* (the TypeError of uncomparable timestamps) is answered in.
C3_ValidationDistinguished ==
    (Responded /\ Out.raised = "ValueError") =>
        Resp.status_code # ExceptionStatus("TypeError")

\* a call that failed unexpectedly was answered
C3_UnexpectedReached == Responded /\ Out.raised = "TypeError"

ClsDone == cls_out # <<>>
Cls == cls_out[1]

\* C4: the confidence the classifier returns is between 0 and 1 (0 and 1000 thousandths)
\* for every acceleration sequence.
C4_ConfidenceBounds == ClsDone => (0 <= Cls.confidence /\ Cls.confidence <= 1000)

\* the boost was applied to a confidence that the signal-to-noise ratio set
C4_Witness ==
    /\ ClsDone
    /\ Len(acc_in) >= MinClassifyPoints
    /\ AllFinite(recent_accel(acc_in))
    /\ ~StdIsZero(recent_accel(acc_in))
    /\ AbsMeanAbove(recent_accel(acc_in), 2 * ThresholdTenths)
    /\ 6 * HalfSignalToNoise(recent_accel(acc_in)).n > 5 * HalfSignalToNoise(recent_accel(acc_in)).d
    /\ Cls.confidence = 1000

\* the rows of the request whose value satisfies Keep, in ascending timestamp order
IsNormalizedBy(df, req, Keep(_)) ==
    LET kept == {i \in 1..Len(req.timestamps) : Keep(req.metrics[i])}
    IN  /\ Len(df) = Cardinality(kept)
        /\ {df[i] : i \in 1..Len(df)} = {Row(req.timestamps[i], req.metrics[i]) : i \in kept}
        /\ \A i, j \in 1..Len(df) : i < j => df[i].timestamp.day <= df[j].timestamp.day

\* C5 as claimed: normalization yields exactly the pairs whose value is neither NaN nor
\* infinite, each with its own timestamp, in ascending timestamp order.
C5_FiniteOnly ==
    (Responded /\ Out.raised = "") => IsNormalizedBy(Out.df, Req, IsFin)

\* C5 amended: normalization yields exactly the pairs whose value is not missing (not
\* NaN), each with its own timestamp, in ascending timestamp order; pairs with an infinite
\* value are kept and reach the smoothing stage.
C5_NotNaNOnly ==
    (Responded /\ Out.raised = "") =>
        /\ IsNormalizedBy(Out.df, Req, LAMBDA x : ~IsNaN(x))
        /\ Len(Out.velocity_history) = Len(Out.df)
        /\ \A i \in 1..Len(Out.df) :
               IsInf(Out.df[i].throughput) => ~IsFin(Out.velocity_history[i])

C5_Witness ==
    /\ Responded
    /\ Out.raised = ""
    /\ Req.timestamps[1].day > Req.timestamps[2].day
    /\ \E i, j, k \in 1..Len(Req.metrics) :
           /\ IsNaN(Req.metrics[i]) /\ IsInf(Req.metrics[j]) /\ IsFin(Req.metrics[k])
           /\ i < j /\ j < k
    /\ \E i \in 1..Len(Out.df) : IsInf(Out.df[i].throughput)
    /\ Len(Out.df) < Len(Req.metrics)

\* C6: in every result, velocity_history and acceleration_history both have the length
\* of the normalized series.
C6_SameLength ==
    (Responded /\ Resp.status_code = StatusOK) =>
        /\ Len(Resp.body[1].velocity_history) = Len(Out.df)
        /\ Len(Resp.body[1].acceleration_history) = Len(Out.df)

C6_Witness ==
    /\ Responded
    /\ Resp.status_code = StatusOK
    /\ Len(Out.df) >= MinDerivativePoints
    /\ Len(Out.df) < Len(Req.metrics)
    /\ Len(Resp.body[1].acceleration_history) = Len(Out.df)
    /\ \E i \in 1..Len(Out.df) : Resp.body[1].acceleration_history[i] # Fin(0)

\* the number of values of the request that are not missing
NotMissing(req) == Cardinality({i \in 1..Len(req.metrics) : ~IsNaN(req.metrics[i])})

PassesLengthChecks(req) ==
    /\ Len(req.timestamps) >= detector.min_data_points
    /\ Len(req.timestamps) = Len(req.metrics)

\* C7: when the request passes the length checks (its timestamps being comparable) and
\* fewer than 3 values are left after the missing ones are removed, no error is raised
\* and the result has an acceleration series of N zeros, trend "stable", confidence 0.5,
\* and for N = 0 current velocity 0, current acceleration 0 and empty histories.
C7_ShortSeries ==
    (/\ Responded
     /\ PassesLengthChecks(Req)
     /\ Comparable(Req.timestamps)
     /\ NotMissing(Req) < 3) =>
        /\ Out.raised = ""
        /\ Resp.status_code = StatusOK
        /\ Resp.body # <<>>
        /\ Resp.body[1].acceleration_history = [i \in 1..NotMissing(Req) |-> Fin(0)]
        /\ Resp.body[1].trend = "stable"
        /\ Resp.body[1].confidence = 500
        /\ NotMissing(Req) = 0 =>
               /\ Resp.body[1].current_velocity = Fin(0)
               /\ Resp.body[1].current_acceleration = Fin(0)
               /\ Resp.body[1].velocity_history = <<>>
               /\ Resp.body[1].acceleration_history = <<>>

C7_Witness ==
    /\ Responded
    /\ PassesLengthChecks(Req)
    /\ NotMissing(Req) = 2
    /\ Resp.status_code = StatusOK
    /\ Resp.body[1].velocity_history[1] # Resp.body[1].velocity_history[2]
    /\ Resp.body[1].acceleration_history = <<Fin(0), Fin(0)>>

\* the sum of the last w elements of acc
SumOfLast(acc, w) == FSum(SubSeq(acc, Len(acc) - w + 1, Len(acc)))

\* the mean s / w is above 0.1, is below -0.1
MeanOverTenth(s, w) == IF IsFin(s) THEN 10 * s.v > w * AccScale ELSE s = PosInf
MeanUnderMinusTenth(s, w) == IF IsFin(s) THEN 10 * s.v < -(w * AccScale) ELSE s = NegInf

Zeros(n) == [i \in 1..n |-> Fin(0)]

\* C8: for a sequence of length L >= 3 the classifier uses exactly the last
\* w = min(7, L div 2) elements, 1 <= w < L, and the trend is "improving" exactly when
\* their mean is above 0.1, "declining" exactly when it is below -0.1, and "stable"
\* otherwise; seven ones smooth (alpha 0.3) to seven ones, whose acceleration is seven
\* zeros, which classify as "stable" with confidence 1.0.
C8_WindowAndLabel ==
    /\ (ClsDone /\ Len(acc_in) >= 3) =>
           LET w == IF Len(acc_in) \div 2 < 7 THEN Len(acc_in) \div 2 ELSE 7
               s == SumOfLast(acc_in, w)
           IN  /\ 1 <= w /\ w < Len(acc_in)
               /\ recent_accel(acc_in) = SubSeq(acc_in, Len(acc_in) - w + 1, Len(acc_in))
               /\ Cls.trend = "improving" <=> MeanOverTenth(s, w)
               /\ Cls.trend = "declining" <=> MeanUnderMinusTenth(s, w)
               /\ Cls.trend = "stable" <=> ~MeanOverTenth(s, w) /\ ~MeanUnderMinusTenth(s, w)
    /\ (ClsDone /\ acc_in = Zeros(7)) => Cls = [trend |-> "stable", confidence |-> 1000]
    /\ _apply_exponential_smoothing(Ones(7), DefaultAlphaTenths) = Ones(7)
    /\ _calculate_acceleration(Ones(7)) = Zeros(7)

\* a sequence of 16 whose last 7 say "improving" and whose last 8 would say "stable"
C8_Witness ==
    /\ ClsDone
    /\ Len(acc_in) = 16
    /\ Cls.trend = "improving"
    /\ ~MeanOverTenth(SumOfLast(acc_in, 8), 8)

C10_AlphaPassedThrough ==
    Responded =>
        /\ Req.smoothing_alpha # <<>> => Out.smoothing_alpha = Req.smoothing_alpha[1]
        /\ Req.smoothing_alpha = <<>> => Out.smoothing_alpha = DefaultAlphaTenths

\* a supplied smoothing factor other than 0 reached the engine
C10_NonZeroPassed ==
    /\ Responded
    /\ Req.smoothing_alpha = <<5>>
    /\ Out.smoothing_alpha = 5
    /\ Out.raised = ""

====
